---- MODULE Spec2Model ----
(***************************************************************************)
(* Model of triangle_mg.py: the geometry edit that turns the cone into a   *)
(* triangle (bmesh.new / from_mesh / delete / to_mesh / free) and          *)
(* add_keyframe_sequence, which schedules keyframes on an object's         *)
(* animation channels.                                                     *)
(*                                                                         *)
(* Numbers: floats are fixed point.  Scales are in hundredths (0.75 is     *)
(* 75), angles in micro-radians.  Vertex indices are 0-based as in Python; *)
(* TLA+ sequences are 1-based, so the vertex of index k is verts[k + 1].   *)
(* A vertex is named by the identity it got when the cone was created      *)
(* (standing for its coordinates); a Mesh stores faces and edges as        *)
(* tuples of vertex INDICES, a BMesh as tuples of vertex IDENTITIES.       *)
(***************************************************************************)
EXTENDS Integers, Sequences, FiniteSets, TLC

VARIABLES
    mesh,     \* the object's Mesh datablock: [verts, edges, faces]
    bm,       \* the BMesh working copy: [held, verts, edges, faces]
    geom,     \* the list passed as geom= to bmesh.ops.delete (vertex ids)
    gpc,      \* position in the geometry edit
    indices,  \* vertex indices the running edit removes (the script: {3})
    mesh0,    \* history: the mesh when the running edit started
    prev,     \* history: the indices of the last edit that ran to its end
    live,     \* the object's live attributes: attribute -> value
    chan,     \* animation channels: attribute -> (frame -> value)
    apc,      \* position in add_keyframe_sequence
    call,     \* arguments of the running call: [attribute, values, frames]
    i,        \* number of (value, frame) pairs the loop has completed
    chan0,    \* history: chan when the running call started
    live0,    \* history: live when the running call started
    ncalls    \* number of calls of add_keyframe_sequence started

vars == <<mesh, bm, geom, gpc, indices, mesh0, prev,
          live, chan, apc, call, i, chan0, live0, ncalls>>
geomVars == <<mesh, bm, geom, gpc, indices, mesh0, prev>>
animVars == <<live, chan, apc, call, i, chan0, live0, ncalls>>

---------------------------------------------------------------------------
(* Bounds of the model *)

\* the largest `vertices` argument of primitive_cone_add that is explored
MaxConeVerts == 4
\* the longest values / frames sequence drawn for a call (the script's own
\* two calls, of length 4, are always among the inputs)
MaxLen == 2
---------------------------------------------------------------------------
(* Program constants *)

\* bpy.ops.mesh.primitive_cone_add(vertices=3)
ConeVertices == 3
\* geom=[verts[3]]
DeletedIndex == 3
\* the script calls add_keyframe_sequence twice (rotation_euler, then scale)
NumCalls == 2
\* scale = 0.75, in hundredths
scale == 75
\* math.pi, in millionths
PiMicro == 3141593

---------------------------------------------------------------------------
(* Helpers *)

Range(s) == {s[j] : j \in 1..Len(s)}

Min(a, b) == IF a <= b THEN a ELSE b

SeqsUpTo(S, n) == UNION {[1..k -> S] : k \in 0..n}

\* the 0-based position of x in the sequence s
IndexOf(s, x) == CHOOSE k \in 0..(Len(s) - 1) : s[k + 1] = x

\* [x] * 3
Rep3(x) == <<x, x, x>>

\* angle * (math.pi / 180), in micro-radians
degToRadian(angle) == (angle * PiMicro) \div 180

RadList(angles) == [j \in 1..Len(angles) |-> degToRadian(angles[j])]

---------------------------------------------------------------------------
(* Geometry: the cone, and the edit that turns it into a triangle *)

\* The mesh primitive_cone_add(vertices=n) makes: n ring vertices 0..n-1,
\* the apex n, the base n-gon and n side triangles.
Cone(n) ==
    [verts |-> [j \in 1..(n + 1) |-> j - 1],
     edges |-> [j \in 1..(2 * n) |->
                  IF j <= n THEN <<j - 1, j % n>> ELSE <<j - n - 1, n>>],
     faces |-> [j \in 1..(n + 1) |->
                  IF j = 1 THEN [k \in 1..n |-> k - 1]
                  ELSE <<j - 2, (j - 1) % n, n>>]]

NoBMesh == [held |-> FALSE, verts |-> <<>>, edges |-> <<>>, faces |-> <<>>]

\* bm = bmesh.new()
BMeshNew == [held |-> TRUE, verts |-> <<>>, edges |-> <<>>, faces |-> <<>>]

\* bm.from_mesh(mesh): the index tuples become tuples of vertex identities
FromMesh(b, m) ==
    [held  |-> b.held,
     verts |-> m.verts,
     edges |-> [j \in 1..Len(m.edges) |->
                  [k \in 1..Len(m.edges[j]) |-> m.verts[m.edges[j][k] + 1]]],
     faces |-> [j \in 1..Len(m.faces) |->
                  [k \in 1..Len(m.faces[j]) |-> m.verts[m.faces[j][k] + 1]]]]

\* verts = [v for v in bm.verts]
VertsList(b) == b.verts

\* verts[k] raises IndexError unless k is an index of the list
LookupOk(verts, S) == \A k \in S : k < Len(verts)

\* a variant of Lookup: [verts[k - 1] for k in S]
LookupOffByOne(verts, S) ==
    {verts[IF k = 0 THEN Len(verts) ELSE k] : k \in S}

\* [verts[k] for k in S]
Lookup(verts, S) == {verts[k + 1] : k \in S}

\* a variant of BMeshOpsDelete: the faces and edges at the vertices of g go,
\* the vertices themselves stay
BMeshOpsDeleteKeepVerts(b, g) ==
    LET KeepT(t) == Range(t) \cap g = {}
    IN  [held  |-> b.held,
         verts |-> b.verts,
         edges |-> SelectSeq(b.edges, KeepT),
         faces |-> SelectSeq(b.faces, KeepT)]

\* a variant of BMeshOpsDelete: context='EDGES' with a geom of vertices
\* only, which deletes nothing
BMeshOpsDeleteContextEdges(b, g) == b

\* bmesh.ops.delete(bm, geom=g, context='VERTS'): the vertices of g go, and
\* with them every edge and every face that uses one of them
BMeshOpsDelete(b, g) ==
    LET KeepV(v) == v \notin g
        KeepT(t) == Range(t) \cap g = {}
    IN  [held  |-> b.held,
         verts |-> SelectSeq(b.verts, KeepV),
         edges |-> SelectSeq(b.edges, KeepT),
         faces |-> SelectSeq(b.faces, KeepT)]

\* bm.to_mesh(mesh): the vertices are numbered anew, in bm.verts order
ToMesh(b) ==
    [verts |-> b.verts,
     edges |-> [j \in 1..Len(b.edges) |->
                  [k \in 1..Len(b.edges[j]) |-> IndexOf(b.verts, b.edges[j][k])]],
     faces |-> [j \in 1..Len(b.faces) |->
                  [k \in 1..Len(b.faces[j]) |-> IndexOf(b.verts, b.faces[j][k])]]]

\* bm.free()
BMeshFree(b) == NoBMesh

\* the sets of vertex indices an edit is tried with
IndexSets == SUBSET (0..MaxConeVerts)

\* bm = bmesh.new(), on the object's current mesh
GeomNew ==
    /\ gpc \in {"start", "done"}
    /\ \E S \in IndexSets : indices' = S
    /\ bm' = BMeshNew
    /\ mesh0' = mesh
    /\ prev' = IF gpc = "done" THEN [some |-> TRUE, idx |-> indices] ELSE prev
    /\ gpc' = "from_mesh"
    /\ UNCHANGED <<mesh, geom>>

\* bm.from_mesh(mesh)
GeomFromMesh ==
    /\ gpc = "from_mesh"
    /\ bm' = FromMesh(bm, mesh)
    /\ gpc' = "verts"
    /\ UNCHANGED <<mesh, geom, indices, mesh0, prev>>

\* verts = [v for v in bm.verts]; geom=[verts[3]]
GeomLookup ==
    /\ gpc = "verts"
    /\ IF LookupOk(VertsList(bm), indices)
       THEN /\ geom' = Lookup(VertsList(bm), indices)
            /\ gpc' = "delete"
       ELSE \* IndexError: the script stops here, nothing below runs
            /\ geom' = geom
            /\ gpc' = "raised"
    /\ UNCHANGED <<mesh, bm, indices, mesh0, prev>>

\* bmesh.ops.delete(bm, geom=[...], context='VERTS')
GeomDelete ==
    /\ gpc = "delete"
    /\ bm' = BMeshOpsDelete(bm, geom)
    /\ gpc' = "to_mesh"
    /\ UNCHANGED <<mesh, geom, indices, mesh0, prev>>

\* bm.to_mesh(mesh)
GeomToMesh ==
    /\ gpc = "to_mesh"
    /\ mesh' = ToMesh(bm)
    /\ gpc' = "free"
    /\ UNCHANGED <<bm, geom, indices, mesh0, prev>>

\* bm.free()
GeomFree ==
    /\ gpc = "free"
    /\ bm' = BMeshFree(bm)
    /\ geom' = {}
    /\ gpc' = "done"
    /\ UNCHANGED <<mesh, indices, mesh0, prev>>

---------------------------------------------------------------------------
(* Animation: add_keyframe_sequence *)

Attributes == {"rotation_euler", "scale"}

\* attribute paths a call is tried with; "bogus" resolves on no object
AttrInputs == Attributes \cup {"bogus"}

\* values a call is tried with; <<50, 50>> is no 3-vector, so the
\* assignment of it to rotation_euler or scale raises
FreeValues == {Rep3(50), Rep3(0), <<50, 50>>}
FreeFrames == {10, 60}

\* the script's first call: rotation_euler at frames 20/70/120/250
RotationCall ==
    [attribute |-> "rotation_euler",
     values |-> <<RadList(<<90, 180, 0>>), RadList(<<90, 145, 0>>),
                  RadList(<<90, 90, 0>>), RadList(<<90, 180, 0>>)>>,
     frames |-> <<20, 70, 120, 250>>]

\* the script's second call: scale at frames 10/60/100/250
ScaleCall ==
    [attribute |-> "scale",
     values |-> <<Rep3(scale), Rep3(50), Rep3(0), Rep3(scale)>>,
     frames |-> <<10, 60, 100, 250>>]

CallInputs ==
    {[attribute |-> a, values |-> v, frames |-> f] :
        a \in AttrInputs,
        v \in SeqsUpTo(FreeValues, MaxLen),
        f \in SeqsUpTo(FreeFrames, MaxLen)}
    \cup {RotationCall, ScaleCall}

\* a variant of Zip that stops one pair early
ZipOffByOne(values, frames) ==
    [j \in 1..(Min(Len(values), Len(frames)) - 1) |-> <<values[j], frames[j]>>]

\* zip(values, frames): stops at the end of the shorter sequence
Zip(values, frames) ==
    [j \in 1..Min(Len(values), Len(frames)) |-> <<values[j], frames[j]>>]

\* setattr(obj, attribute, v) raises for an attribute the object has not,
\* and for a value that is no 3-vector
SetattrOk(attribute, v) == attribute \in Attributes /\ Len(v) = 3

\* a variant of Setattr that assigns nothing
SetattrNoop(lv, attribute, v) == lv

\* setattr(obj, attribute, v)
Setattr(lv, attribute, v) == [lv EXCEPT ![attribute] = v]

\* a variant of KeyframeInsert that keeps a keyframe already at frame f
KeyframeInsertNoReplace(ch, lv, attribute, f) ==
    [ch EXCEPT ![attribute] =
        [x \in (DOMAIN ch[attribute]) \cup {f} |->
            IF x \in DOMAIN ch[attribute] THEN ch[attribute][x] ELSE lv[attribute]]]

\* a variant of KeyframeInsert that drops the channel's other keyframes
KeyframeInsertReset(ch, lv, attribute, f) ==
    [ch EXCEPT ![attribute] = (f :> lv[attribute])]

\* a variant of KeyframeInsert that keys every attribute, not only data_path
KeyframeInsertAllPaths(ch, lv, attribute, f) ==
    [a \in DOMAIN ch |->
        [x \in (DOMAIN ch[a]) \cup {f} |-> IF x = f THEN lv[a] ELSE ch[a][x]]]

\* a variant of KeyframeInsert that ignores frame= and keys the scene's
\* current frame, which the script leaves at 0
KeyframeInsertCurrentFrame(ch, lv, attribute, f) ==
    [ch EXCEPT ![attribute] =
        [x \in (DOMAIN ch[attribute]) \cup {0} |->
            IF x = 0 THEN lv[attribute] ELSE ch[attribute][x]]]

\* obj.keyframe_insert(data_path=attribute, frame=f): records the
\* attribute's current value at frame f, replacing a keyframe already there
KeyframeInsert(ch, lv, attribute, f) ==
    [ch EXCEPT ![attribute] =
        [x \in (DOMAIN ch[attribute]) \cup {f} |->
            IF x = f THEN lv[attribute] ELSE ch[attribute][x]]]

NoCall == [attribute |-> "scale", values |-> <<>>, frames |-> <<>>]

\* add_keyframe_sequence(obj, attribute, values, frames) is entered
AddKeyframeSequence ==
    /\ apc \in {"idle", "returned"}
    /\ ncalls < NumCalls
    /\ \E c \in CallInputs :
        /\ call' = c
        /\ apc' = IF Len(Zip(c.values, c.frames)) = 0 THEN "returned" ELSE "setattr"
    /\ i' = 0
    /\ chan0' = chan
    /\ live0' = live
    /\ ncalls' = ncalls + 1
    /\ UNCHANGED <<live, chan>>

\* setattr(obj, attribute, v)
LoopSetattr ==
    /\ apc = "setattr"
    /\ LET v == Zip(call.values, call.frames)[i + 1][1]
       IN  IF SetattrOk(call.attribute, v)
           THEN /\ live' = Setattr(live, call.attribute, v)
                /\ apc' = "insert"
           ELSE \* the exception leaves the function and ends the script
                /\ live' = live
                /\ apc' = "raised"
    /\ UNCHANGED <<chan, call, i, chan0, live0, ncalls>>

\* obj.keyframe_insert(data_path=attribute, frame=f), then the next pair
LoopKeyframeInsert ==
    /\ apc = "insert"
    /\ LET f == Zip(call.values, call.frames)[i + 1][2]
       IN  chan' = KeyframeInsert(chan, live, call.attribute, f)
    /\ i' = i + 1
    /\ apc' = IF i + 1 < Len(Zip(call.values, call.frames))
              THEN "setattr" ELSE "returned"
    /\ UNCHANGED <<live, call, chan0, live0, ncalls>>

---------------------------------------------------------------------------
(* Specifications *)

\* the object's transform when the animation starts: rotate_obj(name,
\* [90, 180, 0]) and scale_obj(name, [scale]*3), copied by the duplicate
InitLive ==
    [a \in Attributes |->
        IF a = "rotation_euler" THEN RadList(<<90, 180, 0>>) ELSE Rep3(scale)]

InitAnim ==
    /\ live = InitLive
    /\ chan = [a \in Attributes |-> <<>>]
    /\ apc = "idle"
    /\ call = NoCall
    /\ i = 0
    /\ chan0 = [a \in Attributes |-> <<>>]
    /\ live0 = InitLive
    /\ ncalls = 0

\* the triangle the script's edit makes of its cone
Triangle ==
    LET b == FromMesh(BMeshNew, Cone(ConeVertices))
    IN  ToMesh(BMeshOpsDelete(b, Lookup(VertsList(b), {DeletedIndex})))

\* the geometry edit, on the cone of every explored size
InitGeom ==
    /\ \E n \in ConeVertices..MaxConeVerts : mesh = Cone(n) /\ mesh0 = Cone(n)
    /\ bm = NoBMesh
    /\ geom = {}
    /\ gpc = "start"
    /\ indices = {}
    /\ prev = [some |-> FALSE, idx |-> {}]
    /\ InitAnim

NextGeom ==
    \/ GeomNew /\ UNCHANGED animVars
    \/ GeomFromMesh /\ UNCHANGED animVars
    \/ GeomLookup /\ UNCHANGED animVars
    \/ GeomDelete /\ UNCHANGED animVars
    \/ GeomToMesh /\ UNCHANGED animVars
    \/ GeomFree /\ UNCHANGED animVars

SpecGeom == InitGeom /\ [][NextGeom]_vars

\* the animation, on the triangle the script's edit has made
InitAnimation ==
    /\ mesh = Triangle
    /\ mesh0 = Cone(ConeVertices)
    /\ bm = NoBMesh
    /\ geom = {}
    /\ gpc = "done"
    /\ indices = {DeletedIndex}
    /\ prev = [some |-> FALSE, idx |-> {}]
    /\ InitAnim

NextAnim ==
    \/ AddKeyframeSequence /\ UNCHANGED geomVars
    \/ LoopSetattr /\ UNCHANGED geomVars
    \/ LoopKeyframeInsert /\ UNCHANGED geomVars

SpecAnim == InitAnimation /\ [][NextAnim]_vars

---------------------------------------------------------------------------
(* Properties of add_keyframe_sequence, checked under SpecAnim *)

EqualLen == Len(call.values) = Len(call.frames)

\* the number of pairs zip yields for the running call
NPairs == Min(Len(call.values), Len(call.frames))

\* the highest index j <= n with frames[j] = f
LastIdx(frames, f, n) ==
    CHOOSE j \in 1..n : frames[j] = f /\ \A k \in (j + 1)..n : frames[k] # f

\* the keyframes the script's first call writes, as literal micro-radians
RotationKeys ==
    (20 :> <<1570796, 3141593, 0>>) @@ (70 :> <<1570796, 2530727, 0>>)
    @@ (120 :> <<1570796, 1570796, 0>>) @@ (250 :> <<1570796, 3141593, 0>>)

\* the keyframes the script's second call writes, as literal hundredths
ScaleKeys ==
    (10 :> <<75, 75, 75>>) @@ (60 :> <<50, 50, 50>>)
    @@ (100 :> <<0, 0, 0>>) @@ (250 :> <<75, 75, 75>>)

\* C1: after a call with equal-length values and frames has returned, the
\* channel holds at every frames[j] the value values[j'], j' being the
\* highest index with frames[j'] = frames[j] (last write wins).
C1_LastWriteWins ==
    (apc = "returned" /\ EqualLen) =>
        \A j \in 1..Len(call.frames) :
            /\ call.frames[j] \in DOMAIN chan[call.attribute]
            /\ chan[call.attribute][call.frames[j]] =
                 call.values[LastIdx(call.frames, call.frames[j], Len(call.frames))]

\* C1 witness: a call with a repeated frame and two different values returned
C1_Witness ==
    /\ apc = "returned" /\ EqualLen /\ Len(call.frames) = 2
    /\ call.frames[1] = call.frames[2]
    /\ call.values[1] # call.values[2]
    /\ chan[call.attribute][call.frames[1]] = call.values[2]

C3_CountPlusL ==
    (apc = "returned" /\ EqualLen /\ call.attribute \in Attributes) =>
        Cardinality(DOMAIN chan[call.attribute]) =
            Cardinality(DOMAIN chan0[call.attribute]) + Len(call.frames)

\* C3 amended: a returned call with sequences of equal length leaves the
\* channel with as many keyframes more as there are distinct frames in
\* `frames` that carried no keyframe before the call (L more exactly when
\* the frames are pairwise distinct and none was keyed before).
C3_CountPlusNewFrames ==
    (apc = "returned" /\ EqualLen /\ call.attribute \in Attributes) =>
        Cardinality(DOMAIN chan[call.attribute]) =
            Cardinality(DOMAIN chan0[call.attribute])
            + Cardinality(Range(call.frames) \ DOMAIN chan0[call.attribute])

\* C3 witness: of two frames one was keyed before the call, one was not
C3_Witness ==
    /\ apc = "returned" /\ EqualLen /\ Len(call.frames) = 2
    /\ call.attribute \in Attributes
    /\ call.frames[1] \in DOMAIN chan0[call.attribute]
    /\ call.frames[2] \notin DOMAIN chan0[call.attribute]
    /\ Cardinality(DOMAIN chan[call.attribute]) =
         Cardinality(DOMAIN chan0[call.attribute]) + 1

\* C4: during and after a call on (object, attribute), every keyframe of
\* that channel at a frame not in `frames` and every keyframe of every
\* other channel is as before the call; the script's scale call leaves the
\* four rotation_euler keyframes of the first call as they were.
C4_UntouchedKept ==
    /\ \A b \in Attributes \ {call.attribute} : chan[b] = chan0[b]
    /\ call.attribute \in Attributes =>
         \A f \in (DOMAIN chan0[call.attribute]) \ Range(call.frames) :
            /\ f \in DOMAIN chan[call.attribute]
            /\ chan[call.attribute][f] = chan0[call.attribute][f]
    /\ (call = ScaleCall /\ chan0["rotation_euler"] = RotationKeys) =>
         chan["rotation_euler"] = RotationKeys

\* C4 witness: the script's two calls have run, the second one on scale
C4_Witness ==
    /\ apc = "returned" /\ call = ScaleCall
    /\ chan0["rotation_euler"] = RotationKeys
    /\ DOMAIN chan["scale"] = {10, 60, 100, 250}

\* C8: the script's scale call, on a scale channel without keyframes,
\* leaves exactly the four keyframes 10/60/100/250 with the four scale
\* vectors in that order and the live scale at [0.75, 0.75, 0.75]; and
\* every returned call with L >= 1 pairs leaves the live attribute at
\* values[L-1] (0-based).
C8_ScaleCall ==
    /\ (apc = "returned" /\ call = ScaleCall /\ chan0["scale"] = <<>>) =>
         /\ chan["scale"] = ScaleKeys
         /\ live["scale"] = <<75, 75, 75>>
    /\ (apc = "returned" /\ EqualLen /\ Len(call.values) >= 1) =>
         live[call.attribute] = call.values[Len(call.values)]

\* C8 witness: the script's run: rotation call, then scale call, returned
C8_Witness ==
    /\ apc = "returned" /\ call = ScaleCall /\ chan0["scale"] = <<>>
    /\ chan["rotation_euler"] = RotationKeys
    /\ Cardinality(DOMAIN chan["scale"]) = 4

\* the pairs 1..n of the running call are on its channel, last write wins
Committed(ch, n) ==
    \A j \in 1..n :
        /\ call.frames[j] \in DOMAIN ch[call.attribute]
        /\ ch[call.attribute][call.frames[j]] =
             call.values[LastIdx(call.frames, call.frames[j], n)]

\* C10: in every step of the loop: the assignment of values[i] comes after
\* the insertions of the pairs before i and changes no channel; the
\* insertion at frames[i] finds the live attribute at values[i], records it
\* and moves to pair i+1; a step that raises changes no channel, so the
\* keyframes of the pairs before i stay.
C10_AssignThenRecord ==
    [][ /\ apc = "setattr" =>
            /\ Committed(chan, i)
            /\ chan' = chan
            /\ i' = i
            /\ apc' = "insert" => live'[call.attribute] = call.values[i + 1]
            /\ apc' = "raised" => (live' = live /\ Committed(chan', i))
        /\ apc = "insert" =>
            /\ live[call.attribute] = call.values[i + 1]
            /\ live' = live
            /\ chan'[call.attribute][call.frames[i + 1]] = call.values[i + 1]
            /\ i' = i + 1
            /\ Committed(chan', i + 1)
      ]_vars

\* C10 witness: the assignment of the second pair raised, and the keyframe
\* of the first pair, new to the channel, is there
C10_Witness ==
    /\ apc = "raised" /\ i = 1
    /\ call.frames[1] \notin DOMAIN chan0[call.attribute]
    /\ chan[call.attribute][call.frames[1]] = call.values[1]

---------------------------------------------------------------------------
(* Properties of the geometry edit, checked under SpecGeom *)

\* the faces of a mesh as tuples of vertex identities
FaceIds(m) ==
    {[k \in 1..Len(m.faces[j]) |-> m.verts[m.faces[j][k] + 1]] :
        j \in 1..Len(m.faces)}

\* the faces of m, by vertex identity, that use no vertex index of S
FacesAvoiding(m, S) ==
    {[k \in 1..Len(m.faces[j]) |-> m.verts[m.faces[j][k] + 1]] :
        j \in {x \in 1..Len(m.faces) : Range(m.faces[x]) \cap S = {}}}

\* C5: an edit that ran to its end on mesh M with index set S (all in
\* range) leaves a mesh whose faces are exactly the faces of M incident to
\* no vertex of S, and |M.vertices| - |S| vertices.
C5_DeriveMesh ==
    gpc = "done" =>
        /\ indices \subseteq 0..(Len(mesh0.verts) - 1)
        /\ FaceIds(mesh) = FacesAvoiding(mesh0, indices)
        /\ Len(mesh.verts) = Len(mesh0.verts) - Cardinality(indices)

\* C5 witness: vertices 0 and 1 of the 4-sided cone removed: three vertices
\* and one side face are left, and the vertices are numbered anew
C5_Witness ==
    /\ gpc = "done" /\ indices = {0, 1} /\ Len(mesh0.verts) = 5
    /\ Len(mesh.verts) = 3 /\ Len(mesh.faces) = 1
    /\ mesh.verts # SubSeq(mesh0.verts, 1, 3)

\* C6: the script's cone has 4 vertices and 4 faces; the edit with index 3
\* leaves exactly 3 vertices and exactly 1 face, the base.
C6_ConeToTriangle ==
    (gpc = "done" /\ mesh0 = Cone(ConeVertices) /\ indices = {DeletedIndex}) =>
        /\ Len(mesh0.verts) = 4 /\ Len(mesh0.faces) = 4
        /\ Len(mesh.verts) = 3
        /\ Len(mesh.faces) = 1
        /\ FaceIds(mesh) = {<<0, 1, 2>>}
        /\ mesh = Triangle

\* C6 witness: the script's edit has run on the script's cone
C6_Witness ==
    /\ gpc = "done" /\ ~prev.some
    /\ mesh0 = Cone(ConeVertices) /\ indices = {DeletedIndex}
    /\ ~bm.held

\* the running edit repeats the index of the edit before it
Repeats(k) == prev.some /\ prev.idx = {k} /\ indices = {k}

\* C7 as claimed: removing index k again from the result of removing index
\* k is a no-op and no error.
C7_Idempotent ==
    \A k \in 0..MaxConeVerts :
        (gpc \in {"done", "raised"} /\ Repeats(k)) =>
            (gpc = "done" /\ mesh = mesh0)

\* C7 amended: removing index k again is no no-op.  When k is no index of
\* the result any more the vertex lookup raises and the mesh stays the
\* result of the first removal; when it still is one, the vertex now at
\* index k is removed as well.
C7_SecondRemoval ==
    \A k \in 0..MaxConeVerts :
        (gpc \in {"done", "raised"} /\ Repeats(k)) =>
            IF k < Len(mesh0.verts)
            THEN /\ gpc = "done"
                 /\ Range(mesh.verts) = Range(mesh0.verts) \ {mesh0.verts[k + 1]}
                 /\ Len(mesh.verts) = Len(mesh0.verts) - 1
                 /\ mesh # mesh0
            ELSE /\ gpc = "raised"
                 /\ mesh = mesh0

\* C7 witness: the script's edit run again on its own result: IndexError
C7_Witness ==
    /\ gpc = "raised" /\ Repeats(DeletedIndex)
    /\ mesh0 = Triangle /\ mesh = Triangle

\* C9 as claimed, for the script's own index 3: when the edit has ended, by
\* its last statement or by an exception, the working copy is no longer
\* held.
C9_AlwaysReleased ==
    (gpc \in {"done", "raised"} /\ indices = {DeletedIndex}) => ~bm.held

====
